---- MODULE Spec2Model ----
(***************************************************************************)
(* A model of the todo-bot command engine:                                 *)
(*   - command-derive/src/lib.rs : the ParseCommand derive macro (schema   *)
(*     validation, the generated command() descriptor and parse()),        *)
(*   - command/src/lib.rs        : the ParseOption capabilities, the error *)
(*     types and parse_user,                                               *)
(*   - src/commands.rs, src/parser.rs : the two TodoCommand dispatchers.   *)
(*                                                                         *)
(* A Rust String is a sequence of characters, each a one-character TLA+    *)
(* string.  Option<T> is <<>> (None) or <<x>> (Some(x)).  Result<T, E> is  *)
(* [ok |-> TRUE, val |-> x] or [ok |-> FALSE, err |-> e].                  *)
(***************************************************************************)
EXTENDS Integers, Sequences, FiniteSets, TLC

VARIABLES
    crate,      \* the derive inputs of the crate: a sequence of struct declarations
    impls,      \* per declaration: None, or Some(result of the derive macro)
    registered, \* per declaration: None, or Some(the Command its command() returned)
    command,    \* the ApplicationCommand delivered by the gateway, if any
    parsed,     \* None, or Some(outcome of the last generated parse() call)
    todo,       \* None, or Some(outcome of the last TodoCommand::parse call)
    db,         \* State::db: user id -> Mutex<Vec<String>>, as [locked, tasks]
    rw,         \* the RwLock around db: the calls holding it to read, to write
    calls       \* the spawned interaction_responder tasks, in spawn order

vars == <<crate, impls, registered, command, parsed, todo, db, rw, calls>>

----------------------------------------------------------------------------
(* Option and Result *)

None == <<>>
Some(x) == <<x>>
Ok(x) == [ok |-> TRUE, val |-> x]
Err(e) == [ok |-> FALSE, err |-> e]

----------------------------------------------------------------------------
(* Strings *)

Repeat(c, n) == [i \in 1..n |-> c]

\* Characters whose UTF-8 encoding takes two bytes; all others used here take one.
TwoByteChars == {"é"}

\* str::len: the length in bytes of the UTF-8 encoding.
str_len(s) == Len(s) + Cardinality({i \in DOMAIN s : s[i] \in TwoByteChars})

\* The number of characters (Unicode scalar values) of a string.
CharCount(s) == Len(s)

WhiteSpace == {" "}

\* str::trim: leading and trailing white space removed.
RECURSIVE trim_start(_)
trim_start(s) ==
    IF s # <<>> /\ Head(s) \in WhiteSpace THEN trim_start(Tail(s)) ELSE s

RECURSIVE trim_end(_)
trim_end(s) ==
    IF s # <<>> /\ s[Len(s)] \in WhiteSpace
    THEN trim_end(SubSeq(s, 1, Len(s) - 1))
    ELSE s

trim(s) == trim_end(trim_start(s))

UpperSeq == <<"A","B","C","D","E","F","G","H","I","J","K","L","M",
              "N","O","P","Q","R","S","T","U","V","W","X","Y","Z">>
LowerSeq == <<"a","b","c","d","e","f","g","h","i","j","k","l","m",
              "n","o","p","q","r","s","t","u","v","w","x","y","z">>

is_uppercase(c) == \E i \in DOMAIN UpperSeq : UpperSeq[i] = c
is_lowercase(c) == c \in TwoByteChars \/ \E i \in DOMAIN LowerSeq : LowerSeq[i] = c
to_lowercase(c) ==
    IF is_uppercase(c)
    THEN LowerSeq[CHOOSE i \in DOMAIN UpperSeq : UpperSeq[i] = c]
    ELSE c

\* convert_case word boundaries over the characters used here: the delimiters
\* '_', '-' and ' ' (dropped), lower|Upper, and the acronym boundary
\* Upper|Upper-lower.
Delimiters == {"_", "-", " "}

BoundaryBefore(s, i) ==
    /\ i > 1
    /\ \/ is_lowercase(s[i - 1]) /\ is_uppercase(s[i])
       \/ /\ is_uppercase(s[i - 1]) /\ is_uppercase(s[i])
          /\ i < Len(s) /\ is_lowercase(s[i + 1])

RECURSIVE SplitWords(_, _, _, _)
SplitWords(s, i, cur, words) ==
    LET flushed == IF cur = <<>> THEN words ELSE Append(words, cur) IN
    IF i > Len(s) THEN flushed
    ELSE IF s[i] \in Delimiters THEN SplitWords(s, i + 1, <<>>, flushed)
    ELSE IF cur # <<>> /\ BoundaryBefore(s, i)
         THEN SplitWords(s, i + 1, <<s[i]>>, flushed)
    ELSE SplitWords(s, i + 1, Append(cur, s[i]), words)

RECURSIVE JoinWords(_)
JoinWords(words) ==
    IF words = <<>> THEN <<>>
    ELSE IF Len(words) = 1 THEN words[1]
    ELSE words[1] \o <<"_">> \o JoinWords(Tail(words))

\* ident.to_string().to_case(Case::Snake)
to_case_Snake(s) ==
    LET words == SplitWords(s, 1, <<>>, <<>>) IN
    JoinWords([w \in DOMAIN words |->
                  [k \in DOMAIN words[w] |-> to_lowercase(words[w][k])]])

----------------------------------------------------------------------------
(* command/src/lib.rs: wire values, option kinds, errors *)

\* CommandOptionValue: [kind, value].  A Number carries the newtype Number(f64),
\* modelled as the one-element tuple <<x>>.
Wire(kind, value) == [kind |-> kind, value |-> value]

\* CommandOptionValue::kind
kind(value) == value.kind

\* OptionError
Missing == [error |-> "Missing"]
InvalidType(expected, actual) ==
    [error |-> "InvalidType", expected |-> expected, actual |-> actual]

\* CommandError
ImplicitOption(option, error) ==
    [variant |-> "ImplicitOption", option |-> option, error |-> error]
ExplicitOption(option, error) ==
    [variant |-> "ExplicitOption", option |-> option, error |-> error]

\* Error
InvalidCommand(name) == [variant |-> "InvalidCommand", name |-> name]
CommandError(cmd, error) ==
    [variant |-> "CommandError", command |-> cmd, error |-> error]

----------------------------------------------------------------------------
(* command/src/lib.rs: the ParseOption capabilities *)

\* A Rust type is a sequence of type constructors: <<"String">> is String,
\* <<"Option", "u8">> is Option<u8>.
IntegerTypes == {"u8", "i8", "u16", "i16", "u32", "i32", "u64", "i64", "usize", "isize"}
NumberTypes == {"f64", "f32"}

\* ParseOption::TYPE of the base types.
BaseTYPE(t) ==
    CASE t = "Id<UserMarker>" -> "User"
      [] t = "Id<RoleMarker>" -> "Role"
      [] t = "Id<GenericMarker>" -> "Mentionable"
      [] t \in NumberTypes -> "Number"
      [] t \in IntegerTypes -> "Integer"
      [] t = "String" -> "String"
      [] t = "Id<ChannelMarker>" -> "Channel"

\* <T as ParseOption>::TYPE; Option<T>::TYPE is T::TYPE.
RECURSIVE TYPE(_)
TYPE(ty) == IF Head(ty) = "Option" THEN TYPE(Tail(ty)) ELSE BaseTYPE(Head(ty))

\* v shifted right by 16*k bits (arithmetic shift: \div rounds down).
RECURSIVE Shift16(_, _)
Shift16(v, k) == IF k = 0 THEN v ELSE Shift16(v \div 65536, k - 1)

\* The n low 16-bit limbs, least significant first, of v in two's complement:
\* the value of an unsigned integer too wide for the checker's integers.
Limbs(v, n) == [k \in 1..n |-> Shift16(v, k - 1) % 65536]

\* Mutant: a saturating conversion to u8 and i8.
as_integer_saturating(t, v) ==
    CASE t = "u8" -> IF v < 0 THEN 0 ELSE IF v > 255 THEN 255 ELSE v
      [] t = "i8" -> IF v < 0 - 128 THEN 0 - 128 ELSE IF v > 127 THEN 127 ELSE v
      [] t = "u16" -> v % 65536
      [] t = "i16" -> ((v + 32768) % 65536) - 32768
      [] t = "u32" -> Limbs(v, 2)
      [] t \in {"u64", "usize"} -> Limbs(v, 4)
      [] t \in {"i32", "i64", "isize"} -> v

\* `v as $ty` for an i64 v.  Every integer the checker can represent lies in
\* the range of i32, so the cast to i32, i64 and isize leaves it unchanged.
as_integer(t, v) ==
    CASE t = "u8" -> v % 256
      [] t = "i8" -> ((v + 128) % 256) - 128
      [] t = "u16" -> v % 65536
      [] t = "i16" -> ((v + 32768) % 65536) - 32768
      [] t = "u32" -> Limbs(v, 2)
      [] t \in {"u64", "usize"} -> Limbs(v, 4)
      [] t \in {"i32", "i64", "isize"} -> v

Abs(x) == IF x < 0 THEN 0 - x ELSE x

\* The distance between neighbouring f32 values around the integer x.
RECURSIVE UlpF32(_)
UlpF32(x) == IF Abs(x) < 16777216 THEN 1 ELSE 2 * UlpF32(Abs(x) \div 2)

\* `x as f32` for an integer-valued f64 x: round to nearest, ties to even.
as_f32(x) ==
    LET u == UlpF32(x)
        q == Abs(x) \div u
        r == Abs(x) % u
        m == IF 2 * r < u THEN q
             ELSE IF 2 * r > u THEN q + 1
             ELSE IF q % 2 = 0 THEN q ELSE q + 1
    IN IF x < 0 THEN 0 - (m * u) ELSE m * u

\* fn_parse_option!(@$kind(value)) as $ty
Convert(t, value) ==
    CASE t = "f64" -> value[1]
      [] t = "f32" -> as_f32(value[1])
      [] t \in IntegerTypes -> as_integer(t, value)
      [] OTHER -> value

\* Mutant: expected and actual are exchanged.
fn_parse_option_swapped(t, value) ==
    IF value # None /\ value[1].kind = BaseTYPE(t) THEN Ok(Convert(t, value[1].value))
    ELSE IF value # None THEN Err(InvalidType(kind(value[1]), BaseTYPE(t)))
    ELSE Err(Missing)

\* fn_parse_option!($ty: $kind): parse of a base type; value is Option<&CommandOptionValue>.
fn_parse_option(t, value) ==
    IF value # None /\ value[1].kind = BaseTYPE(t) THEN Ok(Convert(t, value[1].value))
    ELSE IF value # None THEN Err(InvalidType(BaseTYPE(t), kind(value[1])))
    ELSE Err(Missing)

\* Option::map
Option_map(o, F(_)) == IF o = None THEN None ELSE Some(F(o[1]))

\* Option<Result<T, E>>::transpose
transpose(o) ==
    IF o = None THEN Ok(None)
    ELSE IF o[1].ok THEN Ok(Some(o[1].val))
    ELSE Err(o[1].err)

\* <T as ParseOption>::parse
RECURSIVE ParseOption_parse(_, _)

\* Mutant: a value T does not parse becomes None
\* (value.and_then(|v| T::parse(Some(v)).ok())).
Option_parse_lenient(T, value) ==
    IF value = None THEN Ok(None)
    ELSE LET r == ParseOption_parse(T, value) IN IF r.ok THEN Ok(Some(r.val)) ELSE Ok(None)

\* impl<T> ParseOption for Option<T>: value.map(Some).map(T::parse).transpose()
Option_parse(T, value) ==
    transpose(Option_map(Option_map(value, Some), LAMBDA v : ParseOption_parse(T, v)))

ParseOption_parse(ty, value) ==
    IF Head(ty) = "Option" THEN Option_parse(Tail(ty), value)
    ELSE fn_parse_option(Head(ty), value)

\* OptionMeta
OptionMeta(name, description, autocomplete, required, min_value, max_value) ==
    [name |-> name, description |-> description, autocomplete |-> autocomplete,
     required |-> required, min_value |-> min_value, max_value |-> max_value]

\* ParseOption::option of the base types: a CommandOption of the type's kind.
BaseOption(t, meta) ==
    CASE BaseTYPE(t) \in {"User", "Role", "Mentionable"} ->
           [kind |-> BaseTYPE(t),
            data |-> [description |-> meta.description, name |-> meta.name,
                      required |-> meta.required]]
      [] BaseTYPE(t) \in {"Number", "Integer"} ->
           [kind |-> BaseTYPE(t),
            data |-> [autocomplete |-> meta.autocomplete, choices |-> <<>>,
                      description |-> meta.description, max_value |-> meta.max_value,
                      min_value |-> meta.min_value, name |-> meta.name,
                      required |-> meta.required]]
      [] BaseTYPE(t) = "String" ->
           [kind |-> "String",
            data |-> [autocomplete |-> meta.autocomplete, choices |-> <<>>,
                      description |-> meta.description, name |-> meta.name,
                      required |-> meta.required]]
      [] BaseTYPE(t) = "Channel" ->
           [kind |-> "Channel",
            data |-> [channel_types |-> <<>>, description |-> meta.description,
                      name |-> meta.name, required |-> meta.required]]

\* <T as ParseOption>::option
RECURSIVE ParseOption_option(_, _)

\* Mutant: the wrapper passes meta on unchanged.
Option_option_unchanged(T, meta) == ParseOption_option(T, meta)

\* Option<T>::option: T::option(OptionMeta { required: false, ..meta })
Option_option(T, meta) == ParseOption_option(T, [meta EXCEPT !.required = FALSE])

ParseOption_option(ty, meta) ==
    IF Head(ty) = "Option" THEN Option_option(Tail(ty), meta)
    ELSE BaseOption(Head(ty), meta)

\* parse_user: the member's user, else the top-level user, else Missing.
parse_user(cmd) ==
    LET mem_user == IF cmd.member = None THEN None ELSE cmd.member[1].user
        user == IF mem_user # None THEN mem_user ELSE cmd.user
    IN IF user = None THEN Err(Missing) ELSE Ok(user[1].id)

\* The extractor a path of an `implicit = "..."` attribute names.
CallImplicit(path, cmd) ==
    CASE path = "command::parse_user" -> parse_user(cmd)

----------------------------------------------------------------------------
(* command-derive/src/lib.rs: schema validation *)

\* darling::Error::custom and darling::Error::missing_field
Error_custom(msg) == [error |-> "custom", what |-> msg]
Error_missing_field(name) == [error |-> "missing_field", what |-> <<name>>]

\* format_args!("{name} attribute must be between {min} and {max} chars long"),
\* as the sequence of its pieces.
LengthMessage(name, min, max) ==
    <<name, " attribute must be between ", ToString(min), " and ", ToString(max),
      " chars long">>

\* Mutant: `&&` for `||`.
validate_length_and(value, name, min, max) ==
    IF str_len(value) < min /\ str_len(value) > max
    THEN Err(Error_custom(LengthMessage(name, min, max)))
    ELSE Ok(<<>>)

\* validate_length: Result<(), Error>, on the length in bytes.
validate_length(value, name, min, max) ==
    IF str_len(value) < min \/ str_len(value) > max
    THEN Err(Error_custom(LengthMessage(name, min, max)))
    ELSE Ok(<<>>)

\* `if let Err(e) = r { errors.push(e) }`
PushErr(errors, r) == IF r.ok THEN errors ELSE Append(errors, r.err)

\* parse_doc_comments: the first doc attribute whose trimmed text is not empty.
\* attrs is the sequence of the texts of the item's doc attributes.
RECURSIVE parse_doc_comments(_)
parse_doc_comments(attrs) ==
    IF attrs = <<>> THEN None
    ELSE IF trim(Head(attrs)) # <<>> THEN Some(trim(Head(attrs)))
    ELSE parse_doc_comments(Tail(attrs))

\* Option::or_else
or_else(o, alt) == IF o # None THEN o ELSE alt

\* impl TryFrom<OptionAttrsRaw> for TupleField.  An error is the flattened list
\* of darling errors.
TupleField_try_from(field) ==
    IF field.name = None THEN Err(<<Error_missing_field("name")>>)
    ELSE
    LET name == field.name[1]
        errors1 == PushErr(<<>>, validate_length(name, "name", 1, 32))
        description == or_else(field.description, parse_doc_comments(field.attrs))
    IN
    IF field.implicit # None
    THEN IF errors1 # <<>> THEN Err(errors1)
         ELSE Ok([name |-> name, ty |-> field.ty,
                  option |-> [variant |-> "Implicit", implicit |-> field.implicit[1]]])
    ELSE IF description = None THEN Err(<<Error_missing_field("description")>>)
    ELSE
    LET errors2 == PushErr(errors1,
                           validate_length(description[1], "description", 1, 100))
    IN IF errors2 # <<>> THEN Err(errors2)
       ELSE Ok([name |-> name, ty |-> field.ty,
                option |-> [variant |-> "Explicit", description |-> description[1],
                            autocomplete |-> field.autocomplete,
                            min |-> field.min, max |-> field.max]])

\* impl TryFrom<OptionAttrsRaw> for StructField
StructField_try_from(field) ==
    IF field.ident = None
    THEN Err(<<Error_custom(<<"missing identifier for struct field">>)>>)
    ELSE
    LET named == IF field.name = None
                 THEN [field EXCEPT !.name = Some(to_case_Snake(field.ident[1]))]
                 ELSE field
        inner == TupleField_try_from(named)
    IN IF inner.ok THEN Ok([ident |-> field.ident[1], field |-> inner.val])
       ELSE Err(inner.err)

\* The Style::Tuple loop: [errors, parsed_fields] after the fields from i on.
RECURSIVE TupleLoop(_, _, _, _)
TupleLoop(fields, i, errors, parsed_fields) ==
    IF i > Len(fields) THEN [errors |-> errors, parsed_fields |-> parsed_fields]
    ELSE
    LET field == fields[i]
        errors1 == IF field.ident # None
                   THEN Append(errors,
                               Error_custom(<<"unexpected identifier on tuple struct field">>))
                   ELSE errors
        r == TupleField_try_from(field)
    IN IF r.ok THEN TupleLoop(fields, i + 1, errors1, Append(parsed_fields, r.val))
       ELSE TupleLoop(fields, i + 1, errors1 \o r.err, parsed_fields)

\* The Style::Struct loop.
RECURSIVE StructLoop(_, _, _, _)
StructLoop(fields, i, errors, parsed_fields) ==
    IF i > Len(fields) THEN [errors |-> errors, parsed_fields |-> parsed_fields]
    ELSE
    LET r == StructField_try_from(fields[i])
    IN IF r.ok THEN StructLoop(fields, i + 1, errors, Append(parsed_fields, r.val))
       ELSE StructLoop(fields, i + 1, errors \o r.err, parsed_fields)

\* impl TryFrom<darling::ast::Fields<OptionAttrsRaw>> for StructFields
StructFields_try_from(fields) ==
    CASE fields.style = "Unit" ->
           IF fields.fields # <<>>
           THEN Err(<<Error_custom(<<"unexpected fields on unit struct">>)>>)
           ELSE Ok([style |-> "Unit", fields |-> <<>>])
      [] fields.style = "Tuple" ->
           LET l == TupleLoop(fields.fields, 1, <<>>, <<>>)
           IN IF l.errors = <<>> THEN Ok([style |-> "Tuple", fields |-> l.parsed_fields])
              ELSE Err(l.errors)
      [] fields.style = "Struct" ->
           LET l == StructLoop(fields.fields, 1, <<>>, <<>>)
           IN IF l.errors = <<>> THEN Ok([style |-> "Struct", fields |-> l.parsed_fields])
              ELSE Err(l.errors)

\* impl FromDeriveInput for StructAttrs
from_derive_input(input) ==
    LET ident == input.ident
        name == IF input.name # None THEN input.name[1] ELSE to_case_Snake(ident)
        description == or_else(input.description, parse_doc_comments(input.attrs))
    IN
    IF description = None THEN Err(<<Error_missing_field("description")>>)
    ELSE
    LET errors1 == PushErr(<<>>, validate_length(name, "name", 1, 32))
        errors2 == PushErr(errors1,
                           validate_length(description[1], "description", 1, 100))
        version == IF input.version # None THEN input.version[1] ELSE 1
        fields == StructFields_try_from(input.data)
    IN IF fields.ok /\ errors2 = <<>>
       THEN Ok([ident |-> ident, name |-> name, version |-> version,
                description |-> description[1], fields |-> fields.val])
       ELSE IF fields.ok THEN Err(errors2)
       ELSE Err(errors2 \o fields.err)

----------------------------------------------------------------------------
(* command-derive/src/lib.rs: the generated impl ParseCommand *)

\* The TupleFields of a schema, in declaration order.
FieldsOf(this) ==
    IF this.fields.style = "Struct"
    THEN [i \in DOMAIN this.fields.fields |-> this.fields.fields[i].field]
    ELSE this.fields.fields

\* The identifiers of the fields: Some(ident) for a named field.
IdentsOf(this) ==
    IF this.fields.style = "Struct"
    THEN [i \in DOMAIN this.fields.fields |-> Some(this.fields.fields[i].ident)]
    ELSE [i \in DOMAIN this.fields.fields |-> None]

\* number_to_command_option_value, to a command::CommandOptionValue
number_to_command_option_value(number) ==
    IF number = None THEN None
    ELSE IF number[1].variant = "I64" THEN Some(Wire("Integer", number[1].x))
    ELSE Some(Wire("Number", number[1].x))

\* Mutant: an implicit field gets a fragment too.
to_command_option_unfiltered(field) ==
    Some(ParseOption_option(field.ty,
            OptionMeta(field.name,
                       IF field.option.variant = "Explicit"
                       THEN field.option.description ELSE <<>>,
                       FALSE, TRUE, None, None)))

\* TupleField::to_command_option, with the generated expression evaluated.
to_command_option(field) ==
    IF field.option.variant = "Explicit"
    THEN Some(ParseOption_option(field.ty,
                 OptionMeta(field.name, field.option.description,
                            field.option.autocomplete, TRUE,
                            number_to_command_option_value(field.option.min),
                            number_to_command_option_value(field.option.max))))
    ELSE None

\* fields.iter().flat_map(TupleField::to_command_option): the Some items, in order.
RECURSIVE flat_map_to_command_option(_)
flat_map_to_command_option(fields) ==
    IF fields = <<>> THEN <<>>
    ELSE to_command_option(Head(fields)) \o flat_map_to_command_option(Tail(fields))

\* StructAttrs::command_options
command_options(this) ==
    IF this.fields.style = "Unit" THEN <<>>
    ELSE flat_map_to_command_option(FieldsOf(this))

\* StructAttrs::consts and StructAttrs::command: the Command that the generated
\* fn command() returns.
Command(this) ==
    [application_id |-> None, default_permission |-> None,
     description |-> this.description, guild_id |-> None, id |-> None,
     kind |-> "ChatInput", name |-> this.name,
     options |-> command_options(this), version |-> this.version]

\* Mutant: the first entry of a name is kept instead of the last.
BTreeMap_collect_first(opts) ==
    [n \in {opts[i].name : i \in DOMAIN opts} |->
        opts[CHOOSE i \in DOMAIN opts :
                /\ opts[i].name = n
                /\ \A j \in DOMAIN opts : opts[j].name = n => i <= j].value]

\* command.data.options.iter().map(|opt| (&*opt.name, &opt.value))
\*     .collect::<BTreeMap<_, _>>(): a later entry replaces an earlier one of
\* the same name.
BTreeMap_collect(opts) ==
    [n \in {opts[i].name : i \in DOMAIN opts} |->
        opts[CHOOSE i \in DOMAIN opts :
                /\ opts[i].name = n
                /\ \A j \in DOMAIN opts : opts[j].name = n => j <= i].value]

\* BTreeMap::get(..).copied()
BTreeMap_get(map, key) == IF key \in DOMAIN map THEN Some(map[key]) ELSE None

\* Result::map_err
map_err(r, F(_)) == IF r.ok THEN r ELSE Err(F(r.err))

\* Mutant: the error of an explicit field is wrapped as that of an implicit one.
to_get_implicit_wrap(field, cmd, options) ==
    IF field.option.variant = "Implicit"
    THEN map_err(CallImplicit(field.option.implicit, cmd),
                 LAMBDA error : ImplicitOption(field.name, error))
    ELSE map_err(ParseOption_parse(field.ty, BTreeMap_get(options, field.name)),
                 LAMBDA error : ImplicitOption(field.name, error))

\* TupleField::to_get, with the generated expression evaluated (before its `?`).
to_get(field, cmd, options) ==
    IF field.option.variant = "Implicit"
    THEN map_err(CallImplicit(field.option.implicit, cmd),
                 LAMBDA error : ImplicitOption(field.name, error))
    ELSE map_err(ParseOption_parse(field.ty, BTreeMap_get(options, field.name)),
                 LAMBDA error : ExplicitOption(field.name, error))

\* Mutant: every field is evaluated and the first error is returned at the end.
RECURSIVE parse_options_all(_, _, _, _, _, _)
parse_options_all(this, cmd, options, i, values, evaluated) ==
    IF i > Len(FieldsOf(this))
    THEN LET failed == {k \in DOMAIN evaluated : ~evaluated[k].get.ok}
         IN [result |-> IF failed = {}
                        THEN Ok([self |-> this.ident, idents |-> IdentsOf(this),
                                 values |-> values])
                        ELSE Err(evaluated[CHOOSE k \in failed :
                                              \A l \in failed : k <= l].get.err),
             evaluated |-> evaluated]
    ELSE
    LET r == to_get(FieldsOf(this)[i], cmd, options)
    IN parse_options_all(this, cmd, options, i + 1,
                         IF r.ok THEN Append(values, r.val) ELSE values,
                         Append(evaluated, [index |-> i, get |-> r]))

\* StructAttrs::parse_options: the field expressions are evaluated in the order
\* written, each ending in `?`.  [result, evaluated]: the value or error that
\* parse returns, and for each field whose expression was evaluated, in the
\* order of evaluation, its index and the value of the expression before `?`.
RECURSIVE parse_options(_, _, _, _, _, _)
parse_options(this, cmd, options, i, values, evaluated) ==
    IF i > Len(FieldsOf(this))
    THEN [result |-> Ok([self |-> this.ident, idents |-> IdentsOf(this),
                         values |-> values]),
          evaluated |-> evaluated]
    ELSE
    LET r == to_get(FieldsOf(this)[i], cmd, options)
        seen == Append(evaluated, [index |-> i, get |-> r])
    IN IF r.ok
       THEN parse_options(this, cmd, options, i + 1, Append(values, r.val), seen)
       ELSE [result |-> Err(r.err), evaluated |-> seen]

\* StructAttrs::parse: the generated fn parse(command).
parse(this, cmd) ==
    parse_options(this, cmd, BTreeMap_collect(cmd.data.options), 1, <<>>, <<>>)

\* derive: the macro expands to an impl (here the validated StructAttrs, from
\* which NAME, DESCRIPTION, VERSION, command() and parse() are generated) or to
\* the compile errors.
derive(input) == from_derive_input(input)

----------------------------------------------------------------------------
(* src/commands.rs: the derive-based dispatcher *)

\* Mutant: the Task arm attributes its errors to DoneCommand::NAME.
TodoCommand_parse_misattributed(task, done, cmd) ==
    IF cmd.data.name = task.name
    THEN LET p == parse(task, cmd)
         IN [result |-> IF p.result.ok
                        THEN Ok([variant |-> "Task", value |-> p.result.val])
                        ELSE Err(CommandError(done.name, p.result.err)),
             ran |-> <<[parser |-> task.ident, evaluated |-> p.evaluated]>>]
    ELSE IF cmd.data.name = done.name
    THEN LET p == parse(done, cmd)
         IN [result |-> IF p.result.ok
                        THEN Ok([variant |-> "Done", value |-> p.result.val])
                        ELSE Err(CommandError(done.name, p.result.err)),
             ran |-> <<[parser |-> done.ident, evaluated |-> p.evaluated]>>]
    ELSE [result |-> Err(InvalidCommand(cmd.data.name)), ran |-> <<>>]

\* TodoCommand::parse of commands.rs; task and done are the impls generated for
\* TaskCommand and DoneCommand.  [result, ran]: what it returns, and for each
\* generated parser it called, the fields that parser evaluated.
TodoCommand_parse(task, done, cmd) ==
    IF cmd.data.name = task.name
    THEN LET p == parse(task, cmd)
         IN [result |-> IF p.result.ok
                        THEN Ok([variant |-> "Task", value |-> p.result.val])
                        ELSE Err(CommandError(task.name, p.result.err)),
             ran |-> <<[parser |-> task.ident, evaluated |-> p.evaluated]>>]
    ELSE IF cmd.data.name = done.name
    THEN LET p == parse(done, cmd)
         IN [result |-> IF p.result.ok
                        THEN Ok([variant |-> "Done", value |-> p.result.val])
                        ELSE Err(CommandError(done.name, p.result.err)),
             ran |-> <<[parser |-> done.ident, evaluated |-> p.evaluated]>>]
    ELSE [result |-> Err(InvalidCommand(cmd.data.name)), ran |-> <<>>]

----------------------------------------------------------------------------
(* src/parser.rs: the hand-written dispatcher *)

S_task == <<"t", "a", "s", "k">>
S_done == <<"d", "o", "n", "e">>
S_user == <<"u", "s", "e", "r">>

\* parser.rs CommandError
parser_MissingUser == [variant |-> "MissingUser"]
parser_MissingOption(option) == [variant |-> "MissingOption", option |-> option]
parser_InvalidType(option, expected, actual) ==
    [variant |-> "InvalidType", option |-> option, expected |-> expected,
     actual |-> actual]

\* Iterator::find(|opt| opt.name == name): the first such entry.
find_option(opts, name) ==
    IF \E i \in DOMAIN opts : opts[i].name = name
    THEN Some(opts[CHOOSE i \in DOMAIN opts :
                      /\ opts[i].name = name
                      /\ \A j \in DOMAIN opts : opts[j].name = name => i <= j])
    ELSE None

\* CommandOptionValueExt::to_string
CommandOptionValueExt_to_string(value) ==
    IF value.kind = "String" THEN Ok(value.value) ELSE Err(value)

\* TaskCommand::parse_inner of parser.rs
parser_TaskCommand_parse_inner(cmd) ==
    LET user == IF cmd.member = None THEN None ELSE cmd.member[1].user
        opt == find_option(cmd.data.options, S_task)
    IN IF user = None THEN Err(parser_MissingUser)
       ELSE IF opt = None THEN Err(parser_MissingOption(S_task))
       ELSE LET task == CommandOptionValueExt_to_string(opt[1].value)
            IN IF ~task.ok
               THEN Err(parser_InvalidType(S_task, "String", kind(task.err)))
               ELSE Ok([self |-> "TaskCommand", user |-> user[1].id, task |-> task.val])

\* TaskCommand::parse of parser.rs
parser_TaskCommand_parse(cmd) ==
    map_err(parser_TaskCommand_parse_inner(cmd),
            LAMBDA error : CommandError(S_task, error))

\* DoneCommand::parse of parser.rs
parser_DoneCommand_parse(cmd) == Ok([self |-> "DoneCommand"])

\* TodoCommand::parse of parser.rs
parser_TodoCommand_parse(cmd) ==
    IF cmd.data.name = S_task
    THEN LET r == parser_TaskCommand_parse(cmd)
         IN [result |-> IF r.ok THEN Ok([variant |-> "Task", value |-> r.val]) ELSE r,
             ran |-> <<"TaskCommand">>]
    ELSE IF cmd.data.name = S_done
    THEN LET r == parser_DoneCommand_parse(cmd)
         IN [result |-> IF r.ok THEN Ok([variant |-> "Done", value |-> r.val]) ELSE r,
             ran |-> <<"DoneCommand">>]
    ELSE [result |-> Err(InvalidCommand(cmd.data.name)), ran |-> <<>>]

----------------------------------------------------------------------------
(* The declarations of src/commands.rs *)

S_TaskCommand == <<"T", "a", "s", "k", "C", "o", "m", "m", "a", "n", "d">>
S_DoneCommand == <<"D", "o", "n", "e", "C", "o", "m", "m", "a", "n", "d">>
Doc_TaskCommand == <<" ", "A", "d", "d", " ", "a", " ", "t", "a", "s", "k", " ", "t", "o", " ", "t", "h", "e", " ", "t", "o", "d", "o", " ", "l", "i", "s", "t">>
Doc_DoneCommand == <<" ", "M", "a", "r", "k", " ", "a", " ", "t", "a", "s", "k", " ", "a", "s", " ", "d", "o", "n", "e">>
Doc_task == <<" ", "T", "h", "e", " ", "t", "a", "s", "k", " ", "t", "o", " ", "c", "r", "e", "a", "t", "e">>
Doc_done_task ==
    <<" ", "T", "h", "e", " ", "i", "n", "d", "e", "x", " ", "o", "f", " ", "t", "h", "e", " ", "c", "o", "m", "m", "a", "n", "d", " ", "t", "o", " ", "m", "a", "r", "k", " ", "c", "o", "m", "p", "l", "e", "t", "e", "d">>

\* An OptionAttrsRaw: what darling reads from one field and its attributes.
OptionAttrsRaw(ident, ty, name, description, implicit, autocomplete, min, max, attrs) ==
    [ident |-> ident, ty |-> ty, name |-> name, description |-> description,
     implicit |-> implicit, autocomplete |-> autocomplete, min |-> min, max |-> max,
     attrs |-> attrs]

\* A StructAttrsRaw: what darling reads from the struct and its attributes.
StructAttrsRaw(ident, name, version, description, attrs, style, fields) ==
    [ident |-> ident, name |-> name, version |-> version, description |-> description,
     attrs |-> attrs, data |-> [style |-> style, fields |-> fields]]

\* #[command(implicit = "command::parse_user")] pub user: Id<UserMarker>
Field_user ==
    OptionAttrsRaw(Some(S_user), <<"Id<UserMarker>">>, None, None,
                   Some("command::parse_user"), FALSE, None, None, <<>>)

\* #[command(name = "task", version = 2)] pub struct TaskCommand
TaskCommandDecl ==
    StructAttrsRaw(S_TaskCommand, Some(S_task), Some(2), None, <<Doc_TaskCommand>>,
        "Struct",
        <<Field_user,
          OptionAttrsRaw(Some(S_task), <<"String">>, None, None, None, FALSE, None,
                         None, <<Doc_task>>)>>)

\* #[command(name = "done", version = 1)] pub struct DoneCommand
DoneCommandDecl ==
    StructAttrsRaw(S_DoneCommand, Some(S_done), Some(1), None, <<Doc_DoneCommand>>,
        "Struct",
        <<Field_user,
          OptionAttrsRaw(Some(S_task), <<"usize">>, None, None, None, FALSE, None,
                         None, <<Doc_done_task>>)>>)

CommandsRs == <<TaskCommandDecl, DoneCommandDecl>>

----------------------------------------------------------------------------
(* The inputs the model draws from *)

MaxFields == 2
MaxOptions == 2

SeqsUpTo(S, n) == UNION {[1..k -> S] : k \in 0..n}

S_d == <<"d">>
S_n == <<"n">>
S_userId == <<"u", "s", "e", "r", "I", "d">>
S_user_id == <<"u", "s", "e", "r", "_", "i", "d">>
S_TodoList == <<"T", "o", "d", "o", "L", "i", "s", "t">>

\* The name, description and doc attributes of a declaration: absent, within
\* the bounds, at a bound, and beyond it.
HeaderNames ==
    {None, Some(S_task), Some(<<>>), Some(Repeat("x", 32)), Some(Repeat("x", 33)),
     Some(Repeat("é", 17))}

\* <<description, attrs>>
HeaderDescriptions ==
    {<<Some(S_d), <<>>>>, <<Some(Repeat("x", 100)), <<>>>>,
     <<Some(Repeat("x", 101)), <<>>>>, <<None, <<<<" ">>, Doc_TaskCommand>>>>,
     <<None, <<>>>>}

\* The part of a field declaration after its identifier and name:
\* <<ty, description, implicit, autocomplete, min, max, attrs>>
Body_implicit ==
    <<<<"Id<UserMarker>">>, None, Some("command::parse_user"), FALSE, None, None, <<>>>>
Body_string == <<<<"String">>, Some(S_d), None, FALSE, None, None, <<>>>>
Body_option_u8 ==
    <<<<"Option", "u8">>, None, None, TRUE, Some([variant |-> "I64", x |-> 0]),
      Some([variant |-> "I64", x |-> 9]), <<Doc_task>>>>
Body_no_description == <<<<"String">>, None, None, FALSE, None, None, <<>>>>
Body_long_description ==
    <<<<"i64">>, Some(Repeat("x", 101)), None, FALSE, None, None, <<>>>>

FieldOf(ident, name, b) ==
    OptionAttrsRaw(ident, b[1], name, b[2], b[3], b[4], b[5], b[6], b[7])

\* Fields of tuple structs: no identifier, the name from the attribute if any.
TupleFieldRaws ==
    {FieldOf(None, name, b) :
        name \in {None, Some(S_task), Some(Repeat("x", 33))},
        b \in {Body_implicit, Body_string, Body_option_u8, Body_no_description,
               Body_long_description}}

\* Fields of structs with named fields.
StructFieldRaws ==
    {FieldOf(Some(ident), name, b) :
        ident \in {S_userId, S_user_id, S_task},
        name \in {None, Some(S_task)},
        b \in {Body_implicit, Body_string, Body_no_description}}

\* The identifiers of the fields of a struct are distinct.
DistinctIdents(fields) ==
    \A i, j \in DOMAIN fields : fields[i].ident = fields[j].ident => i = j

\* The field lists of the declarations: unit, tuple and named-field structs.
FieldLists ==
    {[style |-> "Unit", fields |-> <<>>]}
    \cup {[style |-> "Tuple", fields |-> fs] : fs \in SeqsUpTo(TupleFieldRaws, MaxFields)}
    \cup {[style |-> "Struct", fields |-> fs] :
            fs \in {gs \in SeqsUpTo(StructFieldRaws, MaxFields) : DistinctIdents(gs)}}

\* The declarations the derive macro is applied to.
DeriveInputs ==
    {StructAttrsRaw(S_TodoList, name, None, d[1], d[2], fl.style, fl.fields) :
        name \in HeaderNames, d \in HeaderDescriptions, fl \in FieldLists}

\* Declarations that pass validation, for the generated parsers: tuple structs
\* over fields of several types, some sharing a name.
ParseFieldRaws ==
    {FieldOf(None, Some(S_user), Body_implicit),
     FieldOf(None, Some(S_task), Body_string),
     FieldOf(None, Some(S_task), <<<<"Option", "String">>, Some(S_d), None, FALSE, None,
                                   None, <<>>>>),
     FieldOf(None, Some(S_n), <<<<"u8">>, Some(S_d), None, FALSE, None, None, <<>>>>),
     FieldOf(None, Some(S_n), Body_option_u8),
     FieldOf(None, Some(S_task), <<<<"usize">>, Some(S_d), None, FALSE, None, None,
                                   <<>>>>)}

ParseInputs ==
    {StructAttrsRaw(S_TodoList, None, None, Some(S_d), <<>>, "Tuple", fs) :
        fs \in SeqsUpTo(ParseFieldRaws, MaxFields)}
    \cup {TaskCommandDecl, DoneCommandDecl}

\* The invocations the gateway delivers.
OptionValues == {Wire("String", <<"a">>), Wire("Integer", 300), Wire("Integer", 0 - 1)}
OptionNames == {S_task, S_n}
DataOptions == {[name |-> n, value |-> v] : n \in OptionNames, v \in OptionValues}

\* <<member, user>>: a guild invocation, a direct-message invocation, one with a
\* member that carries no user, and one with neither.
Contexts ==
    {<<Some([user |-> Some([id |-> 1])]), None>>,
     <<None, Some([id |-> 2])>>,
     <<Some([user |-> None]), Some([id |-> 2])>>,
     <<Some([user |-> Some([id |-> 1])]), Some([id |-> 2])>>,
     <<None, None>>}

ApplicationCommands(names, contexts) ==
    {[data |-> [name |-> n, options |-> opts], member |-> c[1], user |-> c[2]] :
        n \in names, opts \in SeqsUpTo(DataOptions, MaxOptions), c \in contexts}

\* Invocations for the generated parsers, which do not read the command name,
\* with and without an invoking user.
ParseCommands ==
    ApplicationCommands({S_task},
                        {<<Some([user |-> Some([id |-> 1])]), None>>, <<None, None>>})

\* One-field declarations over every type with a ParseOption impl, its Option
\* and an Option of an Option, and invocations with a value of every kind.
BaseTypes ==
    IntegerTypes \cup NumberTypes
    \cup {"String", "Id<UserMarker>", "Id<RoleMarker>", "Id<GenericMarker>",
          "Id<ChannelMarker>"}

OptionInputs ==
    {StructAttrsRaw(S_TodoList, None, None, Some(S_d), <<>>, "Tuple",
        <<FieldOf(None, Some(S_task), <<ty, Some(S_d), None, FALSE, None, None, <<>>>>)>>) :
        ty \in {<<t>> : t \in BaseTypes} \cup {<<"Option", t>> : t \in BaseTypes}
               \cup {<<"Option", "Option", "String">>, <<"Option", "Option", "i8">>}}

\* The same declarations, without and with autocomplete and bounds.
DescribeInputs ==
    {StructAttrsRaw(S_TodoList, None, None, Some(S_d), <<>>, "Tuple",
        <<FieldOf(None, Some(S_task),
                  <<ty, Some(S_d), None, m[1], m[2], m[3], <<>>>>)>>) :
        ty \in {<<t>> : t \in BaseTypes} \cup {<<"Option", t>> : t \in BaseTypes}
               \cup {<<"Option", "Option", "String">>, <<"Option", "Option", "i8">>},
        m \in {<<FALSE, None, None>>,
               <<TRUE, Some([variant |-> "I64", x |-> 0]),
                 Some([variant |-> "I64", x |-> 9])>>}}

\* One-field declarations over the integer types, and invocations carrying
\* one Integer value, in and out of the range of the narrow types.
IntegerInputs ==
    {StructAttrsRaw(S_TodoList, None, None, Some(S_d), <<>>, "Tuple",
        <<FieldOf(None, Some(S_task), <<<<t>>, Some(S_d), None, FALSE, None, None, <<>>>>)>>) :
        t \in IntegerTypes}

IntegerValues ==
    {0, 127, 128, 255, 256, 300, 32767, 32768, 65535, 65536, 70000, 1073741824,
     0 - 1, 0 - 128, 0 - 129, 0 - 32769, 0 - 65537}

IntegerCommands ==
    {[data |-> [name |-> S_task,
                options |-> <<[name |-> S_task, value |-> Wire("Integer", v)]>>],
      member |-> None, user |-> None] : v \in IntegerValues}

KindValues ==
    {Wire("String", <<"a">>), Wire("Integer", 300), Wire("Number", <<16777217>>),
     Wire("User", 7), Wire("Role", 8), Wire("Channel", 9), Wire("Mentionable", 7),
     Wire("Boolean", TRUE)}

OptionCommands ==
    {[data |-> [name |-> S_task, options |-> opts], member |-> None, user |-> None] :
        opts \in SeqsUpTo({[name |-> S_task, value |-> v] : v \in KindValues},
                          MaxOptions)}

\* Invocations for the dispatchers: the two command names and an unknown one.
TodoCommands == ApplicationCommands({S_task, S_done, S_n}, Contexts)

----------------------------------------------------------------------------
(* The state machine *)

\* The crate compiles: every derive produced an impl.
Compiled == \A i \in DOMAIN crate : impls[i] # None /\ impls[i][1].ok

\* The impl generated for declaration i.
Impl(i) == impls[i][1].val

InitOf(inputs) ==
    /\ crate \in inputs
    /\ impls = [i \in DOMAIN crate |-> None]
    /\ registered = [i \in DOMAIN crate |-> None]
    /\ command = None
    /\ parsed = None
    /\ todo = None
    /\ db = <<>>
    /\ rw = [readers |-> {}, writer |-> None]
    /\ calls = <<>>

\* The compiler expands #[derive(ParseCommand)] on declaration i.
Derive(i) ==
    /\ impls[i] = None
    /\ impls' = [impls EXCEPT ![i] = Some(derive(crate[i]))]
    /\ UNCHANGED <<crate, registered, command, parsed, todo>>
    /\ UNCHANGED <<db, rw, calls>>

\* A call of the generated command() of declaration i (as COMMANDS does).
CallCommand(i) ==
    /\ Compiled
    /\ registered[i] = None
    /\ registered' = [registered EXCEPT ![i] = Some(Command(Impl(i)))]
    /\ UNCHANGED <<crate, impls, command, parsed, todo>>
    /\ UNCHANGED <<db, rw, calls>>

\* The gateway delivers an invocation, one of cmds.
Receive(cmds) ==
    /\ Compiled
    /\ command = None
    /\ \E cmd \in cmds : command' = Some(cmd)
    /\ UNCHANGED <<crate, impls, registered, parsed, todo>>
    /\ UNCHANGED <<db, rw, calls>>

\* A call of the generated parse() of declaration i on the invocation.
CallParse(i) ==
    /\ Compiled
    /\ command # None /\ parsed = None /\ todo = None
    /\ parsed' = Some([impl |-> i] @@ parse(Impl(i), command[1]))
    /\ UNCHANGED <<crate, impls, registered, command, todo>>
    /\ UNCHANGED <<db, rw, calls>>

\* A call of TodoCommand::parse of commands.rs on the invocation.
CallTodoParse ==
    /\ Compiled /\ crate = CommandsRs
    /\ command # None /\ parsed = None /\ todo = None
    /\ todo' = Some([module |-> "commands"]
                    @@ TodoCommand_parse(Impl(1), Impl(2), command[1]))
    /\ UNCHANGED <<crate, impls, registered, command, parsed>>
    /\ UNCHANGED <<db, rw, calls>>

\* A call of TodoCommand::parse of parser.rs on the invocation.
CallParserTodoParse ==
    /\ command # None /\ parsed = None /\ todo = None
    /\ todo' = Some([module |-> "parser"] @@ parser_TodoCommand_parse(command[1]))
    /\ UNCHANGED <<crate, impls, registered, command, parsed>>
    /\ UNCHANGED <<db, rw, calls>>

\* The invocation and the outcome of its parse are dropped.
Discard ==
    /\ command # None /\ (parsed # None \/ todo # None)
    /\ command' = None /\ parsed' = None /\ todo' = None
    /\ UNCHANGED <<crate, impls, registered>>
    /\ UNCHANGED <<db, rw, calls>>

\* The derive macro and the descriptor, over declarations valid and invalid.
InitDerive == InitOf({<<d>> : d \in DeriveInputs})
NextDerive ==
    \/ \E i \in DOMAIN crate : Derive(i)
    \/ \E i \in DOMAIN crate : CallCommand(i)
SpecDerive == InitDerive /\ [][NextDerive]_vars

\* The generated parsers, over valid declarations and invocations.
InitParse == InitOf({<<d>> : d \in ParseInputs})
NextParse ==
    \/ \E i \in DOMAIN crate : Derive(i)
    \/ Receive(ParseCommands)
    \/ \E i \in DOMAIN crate : CallParse(i)
    \/ Discard
SpecParse == InitParse /\ [][NextParse]_vars

\* The ParseOption capabilities, one field at a time.
InitOption == InitOf({<<d>> : d \in OptionInputs})
NextOption ==
    \/ \E i \in DOMAIN crate : Derive(i)
    \/ Receive(OptionCommands)
    \/ \E i \in DOMAIN crate : CallParse(i)
    \/ Discard
SpecOption == InitOption /\ [][NextOption]_vars

\* The integer conversions.
InitInteger == InitOf({<<d>> : d \in IntegerInputs})
NextInteger ==
    \/ \E i \in DOMAIN crate : Derive(i)
    \/ Receive(IntegerCommands)
    \/ \E i \in DOMAIN crate : CallParse(i)
    \/ Discard
SpecInteger == InitInteger /\ [][NextInteger]_vars

\* The descriptors of the ParseOption capabilities.
InitDescribe == InitOf({<<d>> : d \in DescribeInputs})
NextDescribe ==
    \/ \E i \in DOMAIN crate : Derive(i)
    \/ \E i \in DOMAIN crate : CallCommand(i)
SpecDescribe == InitDescribe /\ [][NextDescribe]_vars

\* The two dispatchers, over the declarations of commands.rs.
InitTodo == InitOf({CommandsRs})
NextTodo ==
    \/ \E i \in DOMAIN crate : Derive(i)
    \/ \E i \in DOMAIN crate : CallCommand(i)
    \/ Receive(TodoCommands)
    \/ CallTodoParse
    \/ CallParserTodoParse
    \/ Discard
SpecTodo == InitTodo /\ [][NextTodo]_vars

----------------------------------------------------------------------------
(* src/main.rs: the event loop, the spawned responders and the task store *)

MaxCalls == 3

S_a == <<"a">>
S_b == <<"b">>

\* The invocations of the running bot: "task" from two guild members, "done",
\* and "task" in a direct message (no member).
StoreCommands ==
    {[data |-> [name |-> S_task,
                options |-> <<[name |-> S_task, value |-> Wire("String", text)]>>],
      member |-> Some([user |-> Some([id |-> u])]), user |-> None] :
        u \in {1, 2}, text \in {S_a, S_b}}
    \cup {[data |-> [name |-> S_done, options |-> <<>>],
           member |-> Some([user |-> Some([id |-> 1])]), user |-> None],
          [data |-> [name |-> S_task,
                     options |-> <<[name |-> S_task, value |-> Wire("String", S_a)]>>],
           member |-> None, user |-> Some([id |-> 2])]}

\* The TaskCommand a call parsed.
TaskOf(t) == calls[t].todo[1].val.value

SetCall(t, pc, guard) == [calls EXCEPT ![t].pc = pc, ![t].guard = guard]

\* Mutant: insert(key, Default::default()), replacing an entry present.
or_default_insert(map, key) ==
    [k \in DOMAIN map \cup {key} |->
        IF k = key THEN [locked |-> None, tasks |-> <<>>] ELSE map[k]]

\* BTreeMap::entry(key).or_default(): the entry is created only when vacant.
or_default(map, key) ==
    IF key \in DOMAIN map THEN map
    ELSE [k \in DOMAIN map \cup {key} |->
            IF k = key THEN [locked |-> None, tasks |-> <<>>] ELSE map[k]]

\* Mutant: the loop awaits each responder before taking the next event.
Spawn_inline ==
    /\ Len(calls) < MaxCalls
    /\ \A t \in DOMAIN calls : calls[t].pc = "done"
    /\ \E cmd \in StoreCommands :
          calls' = Append(calls, [command |-> cmd, pc |-> "parse", todo |-> None,
                                  guard |-> "none", idx |-> 0])
    /\ UNCHANGED <<crate, impls, registered, command, parsed, todo, db, rw>>

\* The event loop takes an InteractionCreate event and spawns its responder.
Spawn ==
    /\ Len(calls) < MaxCalls
    /\ \E cmd \in StoreCommands :
          calls' = Append(calls, [command |-> cmd, pc |-> "parse", todo |-> None,
                                  guard |-> "none", idx |-> 0])
    /\ UNCHANGED <<crate, impls, registered, command, parsed, todo, db, rw>>

\* interaction_responder_inner: TodoCommand::parse(*command)? and the match.
Parse(t) ==
    /\ calls[t].pc = "parse"
    /\ LET r == parser_TodoCommand_parse(calls[t].command).result
       IN calls' = [calls EXCEPT ![t].todo = Some(r),
                                 ![t].pc = IF ~r.ok THEN "failed"
                                           ELSE IF r.val.variant = "Task" THEN "read"
                                           ELSE "handle_done"]
    /\ UNCHANGED <<crate, impls, registered, command, parsed, todo, db, rw>>

\* handle_done: todo!() panics; the runtime ends the task.
HandleDone(t) ==
    /\ calls[t].pc = "handle_done"
    /\ calls' = SetCall(t, "panicked", "none")
    /\ UNCHANGED <<crate, impls, registered, command, parsed, todo, db, rw>>

\* handle_task: let read_db = state.db.read().await
AcquireRead(t) ==
    /\ calls[t].pc = "read"
    /\ rw.writer = None
    /\ rw' = [rw EXCEPT !.readers = @ \cup {t}]
    /\ calls' = SetCall(t, "get", "read")
    /\ UNCHANGED <<crate, impls, registered, command, parsed, todo, db>>

\* Mutant: the read guard is kept while the write lock is requested.
Get_keep_read(t) ==
    /\ calls[t].pc = "get"
    /\ calls' = SetCall(t, IF TaskOf(t).user \in DOMAIN db THEN "lock" ELSE "write",
                        "read")
    /\ UNCHANGED <<crate, impls, registered, command, parsed, todo, db, rw>>

\* handle_task: read_db.get(&command.user), and drop(read_db) when it is None.
Get(t) ==
    /\ calls[t].pc = "get"
    /\ IF TaskOf(t).user \in DOMAIN db
       THEN /\ calls' = SetCall(t, "lock", "read")
            /\ rw' = rw
       ELSE /\ calls' = SetCall(t, "write", "none")
            /\ rw' = [rw EXCEPT !.readers = @ \ {t}]
    /\ UNCHANGED <<crate, impls, registered, command, parsed, todo, db>>

\* handle_task: write_db = state.db.write().await
AcquireWrite(t) ==
    /\ calls[t].pc = "write"
    /\ rw.writer = None /\ rw.readers = {}
    /\ rw' = [rw EXCEPT !.writer = Some(t)]
    /\ calls' = SetCall(t, "entry", "write")
    /\ UNCHANGED <<crate, impls, registered, command, parsed, todo, db>>

\* handle_task: write_db.entry(command.user).or_default()
Entry(t) ==
    /\ calls[t].pc = "entry"
    /\ db' = or_default(db, TaskOf(t).user)
    /\ calls' = SetCall(t, "lock", "write")
    /\ UNCHANGED <<crate, impls, registered, command, parsed, todo, rw>>

\* handle_task: tasks.lock().await, on either path.
Lock(t) ==
    /\ calls[t].pc = "lock"
    /\ db[TaskOf(t).user].locked = None
    /\ db' = [db EXCEPT ![TaskOf(t).user].locked = Some(t)]
    /\ calls' = [calls EXCEPT ![t].pc = "push"]
    /\ UNCHANGED <<crate, impls, registered, command, parsed, todo, rw>>

\* handle_task: tasks.push(command.task.clone()); tasks.len()
Push(t) ==
    /\ calls[t].pc = "push"
    /\ db' = [db EXCEPT ![TaskOf(t).user].tasks = Append(@, TaskOf(t).task)]
    /\ calls' = [calls EXCEPT ![t].pc = "unlock",
                              ![t].idx = Len(db[TaskOf(t).user].tasks) + 1]
    /\ UNCHANGED <<crate, impls, registered, command, parsed, todo, rw>>

\* End of the block: `tasks`, declared last, is dropped first.
Unlock(t) ==
    /\ calls[t].pc = "unlock"
    /\ db' = [db EXCEPT ![TaskOf(t).user].locked = None]
    /\ calls' = [calls EXCEPT ![t].pc = "release"]
    /\ UNCHANGED <<crate, impls, registered, command, parsed, todo, rw>>

\* End of the block: then write_db or read_db is dropped.
Release(t) ==
    /\ calls[t].pc = "release"
    /\ rw' = IF calls[t].guard = "write" THEN [rw EXCEPT !.writer = None]
             ELSE [rw EXCEPT !.readers = @ \ {t}]
    /\ calls' = SetCall(t, "respond", "none")
    /\ UNCHANGED <<crate, impls, registered, command, parsed, todo, db>>

\* interaction_callback(..).exec().await?: the response is sent, or the
\* request fails and the responder logs the error.
Respond(t) ==
    /\ calls[t].pc = "respond"
    /\ \/ calls' = [calls EXCEPT ![t].pc = "done"]
       \/ calls' = [calls EXCEPT ![t].pc = "failed"]
    /\ UNCHANGED <<crate, impls, registered, command, parsed, todo, db, rw>>

\* The steps of the responder spawned t-th.
Step(t) ==
    /\ t \in DOMAIN calls
    /\ \/ Parse(t) \/ HandleDone(t) \/ AcquireRead(t) \/ Get(t) \/ AcquireWrite(t)
       \/ Entry(t) \/ Lock(t) \/ Push(t) \/ Unlock(t) \/ Release(t) \/ Respond(t)

InitStore == InitOf({<<>>})
NextStore ==
    \/ Spawn
    \/ \E t \in DOMAIN calls : Parse(t)
    \/ \E t \in DOMAIN calls : HandleDone(t)
    \/ \E t \in DOMAIN calls : AcquireRead(t)
    \/ \E t \in DOMAIN calls : Get(t)
    \/ \E t \in DOMAIN calls : AcquireWrite(t)
    \/ \E t \in DOMAIN calls : Entry(t)
    \/ \E t \in DOMAIN calls : Lock(t)
    \/ \E t \in DOMAIN calls : Push(t)
    \/ \E t \in DOMAIN calls : Unlock(t)
    \/ \E t \in DOMAIN calls : Release(t)
    \/ \E t \in DOMAIN calls : Respond(t)
\* The interleavings of the responders.
SpecStore == InitStore /\ [][NextStore]_vars
\* The runtime polls every spawned task that can make progress.
SpecStoreFair == SpecStore /\ \A t \in 1..MaxCalls : WF_vars(Step(t))

----------------------------------------------------------------------------
(* Properties of the generated parsers *)

\* The invocation being parsed, the schema it is parsed against, its fields.
Cmd == command[1]
Schema == Impl(parsed[1].impl)
Fields == FieldsOf(Schema)
Outcome == parsed[1].result
EvaluatedIndices == [k \in DOMAIN parsed[1].evaluated |-> parsed[1].evaluated[k].index]

IsExplicit(f) == f.option.variant = "Explicit"
IsImplicit(f) == f.option.variant = "Implicit"
IsOptional(f) == Head(f.ty) = "Option"
IsRequired(f) == ~IsOptional(f)

\* The invocation carries an option of this name; the value found under the
\* name (of several entries of one name, the last).
Supplied(cmd, name) == \E i \in DOMAIN cmd.data.options : cmd.data.options[i].name = name
WireOf(cmd, name) ==
    LET opts == cmd.data.options
        last == CHOOSE i \in DOMAIN opts :
                    /\ opts[i].name = name
                    /\ \A j \in DOMAIN opts : j > i => opts[j].name # name
    IN opts[last].value

\* The option kind a field's type declares: for Option<T>, that of T.
InnerType(ty) == ty[Len(ty)]
KindOf(ty) == BaseTYPE(InnerType(ty))

CorrectlyTagged(f, cmd) ==
    Supplied(cmd, f.name) /\ WireOf(cmd, f.name).kind = KindOf(f.ty)

\* The invoking identity: the member's user, else the top-level user.
HasInvoker(cmd) ==
    (cmd.member # None /\ cmd.member[1].user # None) \/ cmd.user # None
Invoker(cmd) ==
    IF cmd.member # None /\ cmd.member[1].user # None
    THEN cmd.member[1].user[1].id
    ELSE cmd.user[1].id

\* The field can be filled from the invocation.
FieldSucceeds(f, cmd) ==
    IF IsImplicit(f) THEN HasInvoker(cmd)
    ELSE IF IsOptional(f) THEN ~Supplied(cmd, f.name) \/ CorrectlyTagged(f, cmd)
    ELSE CorrectlyTagged(f, cmd)

RECURSIVE Wrapped(_, _)
Wrapped(ty, x) == IF Head(ty) = "Option" THEN Some(Wrapped(Tail(ty), x)) ELSE x

\* The value a field that can be filled is to hold.
ExpectedValue(f, cmd) ==
    IF IsImplicit(f) THEN Invoker(cmd)
    ELSE IF ~Supplied(cmd, f.name) THEN None
    ELSE Wrapped(f.ty, Convert(InnerType(f.ty), WireOf(cmd, f.name).value))

\* The error of a field that cannot be filled.
ExpectedError(f, cmd) ==
    IF IsImplicit(f) THEN ImplicitOption(f.name, Missing)
    ELSE IF ~Supplied(cmd, f.name) THEN ExplicitOption(f.name, Missing)
    ELSE ExplicitOption(f.name,
                        InvalidType(KindOf(f.ty), WireOf(cmd, f.name).kind))

ValuesAsExpected ==
    /\ Outcome.ok
    /\ Len(Outcome.val.values) = Len(Fields)
    /\ \A i \in DOMAIN Fields : Outcome.val.values[i] = ExpectedValue(Fields[i], Cmd)

\* C1, as stated: whenever the invocation supplies a correctly-tagged value for
\* each required explicit field and the implicit extractors succeed, parse
\* returns Ok with every field equal to the converted wire value of its name.
C1_AsStated ==
    parsed # None =>
        ((\A i \in DOMAIN Fields :
             /\ IsExplicit(Fields[i]) /\ IsRequired(Fields[i])
                    => CorrectlyTagged(Fields[i], Cmd)
             /\ IsImplicit(Fields[i]) => HasInvoker(Cmd))
         => ValuesAsExpected)

\* C1, amended: whenever the invocation supplies a correctly-tagged value for
\* each required explicit field, every optional explicit field is absent or
\* correctly tagged, and the implicit extractors succeed, parse returns Ok and
\* the i-th field of the result equals the converted wire value found under the
\* name of the i-th field of the schema (None for an absent optional field).
C1_ParseSucceeds ==
    parsed # None =>
        ((\A i \in DOMAIN Fields : FieldSucceeds(Fields[i], Cmd)) => ValuesAsExpected)

\* A two-field schema with a required and an optional explicit field, both
\* supplied and parsed.
C1_Witness ==
    /\ parsed # None
    /\ Len(Fields) = 2
    /\ \A i \in DOMAIN Fields : IsExplicit(Fields[i]) /\ FieldSucceeds(Fields[i], Cmd)
    /\ IsRequired(Fields[1]) /\ IsOptional(Fields[2]) /\ Supplied(Cmd, Fields[2].name)
    /\ Fields[1].name # Fields[2].name
    /\ Outcome.ok

\* C2, as stated: if the name of a required explicit field is absent from the
\* invocation, parse fails with ExplicitOption{that name, Missing} and no field
\* after it is evaluated.
C2_AsStated ==
    parsed # None =>
        \A i \in DOMAIN Fields :
            IsExplicit(Fields[i]) /\ IsRequired(Fields[i]) /\ ~Supplied(Cmd, Fields[i].name)
            => /\ Outcome = Err(ExplicitOption(Fields[i].name, Missing))
               /\ \A k \in DOMAIN EvaluatedIndices : EvaluatedIndices[k] <= i

\* C2, amended: if the name of a required explicit field is absent from the
\* invocation and every field before it in schema order can be filled, parse
\* fails with ExplicitOption{that name, Missing}, and the fields evaluated are
\* exactly those up to it: no field after it is evaluated.
C2_MissingRequired ==
    parsed # None =>
        \A i \in DOMAIN Fields :
            /\ IsExplicit(Fields[i]) /\ IsRequired(Fields[i])
            /\ ~Supplied(Cmd, Fields[i].name)
            /\ \A j \in 1..(i - 1) : FieldSucceeds(Fields[j], Cmd)
            => /\ Outcome = Err(ExplicitOption(Fields[i].name, Missing))
               /\ EvaluatedIndices = [k \in 1..i |-> k]

\* The first of two fields is required, explicit and absent; the second could
\* not be filled either.
C2_Witness ==
    /\ parsed # None
    /\ Len(Fields) = 2
    /\ IsExplicit(Fields[1]) /\ IsRequired(Fields[1]) /\ ~Supplied(Cmd, Fields[1].name)
    /\ ~FieldSucceeds(Fields[2], Cmd)
    /\ ~Outcome.ok

\* C3, as stated: if the invocation supplies for an explicit field a value whose
\* tag differs from the field's declared kind, parse fails with
\* ExplicitOption{that name, InvalidType{expected: the declared kind (for
\* Option<T>, T's), actual: the kind of the value supplied}}.
C3_AsStated ==
    parsed # None =>
        \A i \in DOMAIN Fields :
            /\ IsExplicit(Fields[i]) /\ Supplied(Cmd, Fields[i].name)
            /\ WireOf(Cmd, Fields[i].name).kind # KindOf(Fields[i].ty)
            => Outcome = Err(ExplicitOption(Fields[i].name,
                                InvalidType(KindOf(Fields[i].ty),
                                            WireOf(Cmd, Fields[i].name).kind)))

\* C3, amended: if the invocation supplies for an explicit field a value whose
\* tag differs from the field's declared kind and every field before it in
\* schema order can be filled, parse fails with ExplicitOption{that name,
\* InvalidType{expected: the declared kind (for Option<T>, T's), actual: the
\* kind of the value supplied}}.
C3_InvalidType ==
    parsed # None =>
        \A i \in DOMAIN Fields :
            /\ IsExplicit(Fields[i]) /\ Supplied(Cmd, Fields[i].name)
            /\ WireOf(Cmd, Fields[i].name).kind # KindOf(Fields[i].ty)
            /\ \A j \in 1..(i - 1) : FieldSucceeds(Fields[j], Cmd)
            => Outcome = Err(ExplicitOption(Fields[i].name,
                                InvalidType(KindOf(Fields[i].ty),
                                            WireOf(Cmd, Fields[i].name).kind)))

\* The second field is an Option<T> supplied with a value of another kind, after
\* a first field that was filled.
C3_Witness ==
    /\ parsed # None
    /\ Len(Fields) = 2
    /\ FieldSucceeds(Fields[1], Cmd)
    /\ IsExplicit(Fields[2]) /\ IsOptional(Fields[2]) /\ Supplied(Cmd, Fields[2].name)
    /\ WireOf(Cmd, Fields[2].name).kind # KindOf(Fields[2].ty)
    /\ ~Outcome.ok

\* C4: Option<T>::parse(None) is Ok(None); on a present value it is Ok(Some(x))
\* when T::parse gives Ok(x) and Err(e) when T::parse gives Err(e); it is never
\* Missing.  Stated of every evaluated field of an Option type.
C4_OptionParse ==
    parsed # None =>
        \A k \in DOMAIN parsed[1].evaluated :
            LET f == Fields[parsed[1].evaluated[k].index]
                got == parsed[1].evaluated[k].get
                raw == IF Supplied(Cmd, f.name) THEN Some(WireOf(Cmd, f.name)) ELSE None
                inner == ParseOption_parse(Tail(f.ty), raw)
            IN IsExplicit(f) /\ IsOptional(f) =>
                /\ raw = None => got = Ok(None)
                /\ raw # None /\ inner.ok => got = Ok(Some(inner.val))
                /\ raw # None /\ ~inner.ok => got = Err(ExplicitOption(f.name, inner.err))
                /\ ~got.ok => got.err.error # Missing

\* An Option<T> field supplied with a value that T does not parse.
C4_Witness ==
    /\ parsed # None
    /\ IsOptional(Fields[1])
    /\ Supplied(Cmd, Fields[1].name)
    /\ ~ParseOption_parse(Tail(Fields[1].ty), Some(WireOf(Cmd, Fields[1].name))).ok
    /\ ~Outcome.ok

\* C5: the fields are evaluated one by one in schema order up to the first that
\* cannot be filled, and no further; parse returns that field's error
\* (ImplicitOption{name, the extractor's error} for an implicit field), whatever
\* the later fields would give; when every field can be filled all are
\* evaluated and parse returns Ok.
C5_FailFast ==
    parsed # None =>
        LET failing == {i \in DOMAIN Fields : ~FieldSucceeds(Fields[i], Cmd)}
        IN IF failing = {}
           THEN Outcome.ok /\ EvaluatedIndices = [k \in DOMAIN Fields |-> k]
           ELSE LET first == CHOOSE i \in failing : \A j \in failing : i <= j
                IN /\ EvaluatedIndices = [k \in 1..first |-> k]
                   /\ Outcome = Err(ExpectedError(Fields[first], Cmd))
                   /\ \A k \in 1..(first - 1) : parsed[1].evaluated[k].get.ok

\* The extractor of the implicit first field fails and the explicit second field
\* is missing or mistyped: the error is the first field's.
C5_Witness ==
    /\ parsed # None
    /\ Len(Fields) = 2
    /\ IsImplicit(Fields[1]) /\ ~HasInvoker(Cmd)
    /\ IsExplicit(Fields[2]) /\ ~FieldSucceeds(Fields[2], Cmd)
    /\ Outcome = Err(ImplicitOption(Fields[1].name, Missing))

----------------------------------------------------------------------------
(* Properties of the dispatchers *)

\* What a dispatcher is to return for a command name it knows, given the
\* outcome r of that command's parser.
Dispatched(variant, name, r) ==
    IF r.ok THEN Ok([variant |-> variant, value |-> r.val])
    ELSE Err(CommandError(name, r.err))

\* C6: TodoCommand::parse (of commands.rs and of parser.rs) runs, for the name
\* "task" or "done", exactly that command's parser and returns its value tagged
\* Task or Done, or Error::CommandError{that name, the parser's error}; for any
\* other name it returns InvalidCommand(the name) and runs no parser.
C6_Dispatch ==
    todo # None =>
        LET name == Cmd.data.name
            t == todo[1]
        IN IF t.module = "commands"
           THEN CASE name = S_task ->
                       LET p == parse(Impl(1), Cmd)
                       IN /\ t.ran = <<[parser |-> S_TaskCommand,
                                        evaluated |-> p.evaluated]>>
                          /\ t.result = Dispatched("Task", S_task, p.result)
                  [] name = S_done ->
                       LET p == parse(Impl(2), Cmd)
                       IN /\ t.ran = <<[parser |-> S_DoneCommand,
                                        evaluated |-> p.evaluated]>>
                          /\ t.result = Dispatched("Done", S_done, p.result)
                  [] OTHER -> t.ran = <<>> /\ t.result = Err(InvalidCommand(name))
           ELSE CASE name = S_task ->
                       /\ t.ran = <<"TaskCommand">>
                       /\ t.result = Dispatched("Task", S_task,
                                                parser_TaskCommand_parse_inner(Cmd))
                  [] name = S_done ->
                       /\ t.ran = <<"DoneCommand">>
                       /\ t.result = Ok([variant |-> "Done",
                                         value |-> [self |-> "DoneCommand"]])
                  [] OTHER -> t.ran = <<>> /\ t.result = Err(InvalidCommand(name))

\* The dispatcher of commands.rs ran the parser of "task", which failed on its
\* explicit field.
C6_Witness ==
    /\ todo # None
    /\ todo[1].module = "commands"
    /\ Cmd.data.name = S_task
    /\ Len(todo[1].ran) = 1
    /\ todo[1].result =
           Err(CommandError(S_task,
                   ExplicitOption(S_task, InvalidType("String", "Integer"))))

----------------------------------------------------------------------------
(* Properties of the derive macro *)

\* The declaration, the outcome of the derive, the fields of the schema built.
Decl == crate[1]
Built == impls[1][1]
BuiltFields == FieldsOf(Built.val)

\* The indices of the explicit fields, in schema order.
ExplicitPositions(fs) ==
    SelectSeq([i \in DOMAIN fs |-> i], LAMBDA i : IsExplicit(fs[i]))

\* C7: the descriptor's option list has exactly one fragment per explicit field
\* and none for an implicit one, in the order of the explicit fields in the
\* schema; its name, description and version are the schema's.
C7_Descriptor ==
    registered[1] # None =>
        LET d == registered[1][1]
            at == ExplicitPositions(BuiltFields)
        IN /\ d.name = Built.val.name
           /\ d.description = Built.val.description
           /\ d.version = Built.val.version
           /\ Len(d.options) = Len(at)
           /\ \A k \in DOMAIN at :
                 /\ d.options[k].kind = KindOf(BuiltFields[at[k]].ty)
                 /\ d.options[k].data.name = BuiltFields[at[k]].name
                 /\ d.options[k].data.description = BuiltFields[at[k]].option.description

\* The descriptor of a schema with an implicit field before an explicit one.
C7_Witness ==
    /\ registered[1] # None
    /\ Len(BuiltFields) = 2
    /\ IsImplicit(BuiltFields[1]) /\ IsExplicit(BuiltFields[2])
    /\ Len(registered[1][1].options) = 1
    /\ registered[1][1].options[1].data.name = BuiltFields[2].name

InBounds(s, min, max) == min <= CharCount(s) /\ CharCount(s) <= max

\* The name and description a declaration or field resolves to: the attribute,
\* else the identifier in snake case, resp. the doc comment.
ResolvedName(x) ==
    IF x.name # None THEN x.name
    ELSE IF x.ident = None THEN None
    ELSE Some(to_case_Snake(x.ident[1]))
ResolvedDescription(x) == or_else(x.description, parse_doc_comments(x.attrs))

NameViolation(x) == ResolvedName(x) # None /\ ~InBounds(ResolvedName(x)[1], 1, 32)
DescriptionViolation(x) ==
    ResolvedDescription(x) # None /\ ~InBounds(ResolvedDescription(x)[1], 1, 100)

\* Some length bound is violated by the declaration or one of its fields.
ViolatesBounds(input) ==
    \/ ~InBounds(IF input.name # None THEN input.name[1] ELSE to_case_Snake(input.ident),
                 1, 32)
    \/ DescriptionViolation(input)
    \/ \E i \in DOMAIN input.data.fields :
          LET f == input.data.fields[i]
          IN f.implicit = None /\ (NameViolation(f) \/ DescriptionViolation(f))

\* C8: the build succeeds only if the schema's name has 1-32 and its description
\* 1-100 characters and so do the name and description of every explicit field;
\* a declaration violating one of these bounds gives an error, and then no
\* descriptor is produced.
C8_LengthBounds ==
    impls[1] # None =>
        /\ Built.ok =>
              /\ InBounds(Built.val.name, 1, 32)
              /\ InBounds(Built.val.description, 1, 100)
              /\ \A i \in DOMAIN BuiltFields :
                    IsExplicit(BuiltFields[i]) =>
                        /\ InBounds(BuiltFields[i].name, 1, 32)
                        /\ InBounds(BuiltFields[i].option.description, 1, 100)
        /\ ViolatesBounds(Decl) => ~Built.ok
        /\ ~Built.ok => registered[1] = None

\* A schema built from a name of 32 and a description of 100 characters, with an
\* explicit field, and its descriptor produced.
C8_Witness ==
    /\ impls[1] # None /\ Built.ok
    /\ CharCount(Built.val.name) = 32
    /\ CharCount(Built.val.description) = 100
    /\ \E i \in DOMAIN BuiltFields : IsExplicit(BuiltFields[i])
    /\ registered[1] # None

\* The errors a declaration calls for, one per violation: of the header, then
\* of each field in order.
HeaderViolations(input) ==
    (IF ~InBounds(IF input.name # None THEN input.name[1]
                  ELSE to_case_Snake(input.ident), 1, 32)
     THEN <<Error_custom(LengthMessage("name", 1, 32))>> ELSE <<>>)
    \o (IF ResolvedDescription(input) = None
        THEN <<Error_missing_field("description")>> ELSE <<>>)
    \o (IF DescriptionViolation(input)
        THEN <<Error_custom(LengthMessage("description", 1, 100))>> ELSE <<>>)

FieldViolations(f) ==
    (IF ResolvedName(f) = None THEN <<Error_missing_field("name")>> ELSE <<>>)
    \o (IF NameViolation(f)
        THEN <<Error_custom(LengthMessage("name", 1, 32))>> ELSE <<>>)
    \o (IF f.implicit = None /\ ResolvedDescription(f) = None
        THEN <<Error_missing_field("description")>> ELSE <<>>)
    \o (IF f.implicit = None /\ DescriptionViolation(f)
        THEN <<Error_custom(LengthMessage("description", 1, 100))>> ELSE <<>>)

RECURSIVE AllFieldViolations(_)
AllFieldViolations(fields) ==
    IF fields = <<>> THEN <<>>
    ELSE FieldViolations(Head(fields)) \o AllFieldViolations(Tail(fields))

Violations(input) ==
    HeaderViolations(input) \o AllFieldViolations(input.data.fields)

Count(seq, e) == Cardinality({i \in DOMAIN seq : seq[i] = e})

\* C9: validation errors are accumulated: when a declaration has several
\* violations, the error returned by the build reports every one of them.
C9_AllReported ==
    (impls[1] # None /\ ~Built.ok) =>
        \A i \in DOMAIN Violations(Decl) :
            Count(Violations(Decl), Violations(Decl)[i])
                <= Count(Built.err, Violations(Decl)[i])

\* C10: the build rejects a declaration in which two fields resolve to the
\* same name.
C10_DistinctNames ==
    (impls[1] # None /\ Built.ok) =>
        \A i, j \in DOMAIN BuiltFields :
            i # j => BuiltFields[i].name # BuiltFields[j].name

----------------------------------------------------------------------------
(* Properties of the identity extraction *)

\* The identity a dispatcher's Task parser extracted, when it returned Ok.
ExtractedUser(t) ==
    IF t.module = "commands" THEN t.result.val.value.values[1]
    ELSE t.result.val.value.user

\* The dispatcher's Task parser failed on the identity.
IdentityFailure(t) ==
    /\ ~t.result.ok
    /\ IF t.module = "commands"
       THEN t.result.err = CommandError(S_task, ImplicitOption(S_user, Missing))
       ELSE t.result.err = CommandError(S_task, parser_MissingUser)

\* C11: every parser that derives the invoking identity (the derived
\* TaskCommand through parse_user, and the hand-written TaskCommand of
\* parser.rs) yields the id of the member's user when present, else the id of
\* the top-level user when present, and fails on the identity exactly when
\* neither is present.
C11_Identity ==
    (todo # None /\ Cmd.data.name = S_task) =>
        /\ IdentityFailure(todo[1]) <=> ~HasInvoker(Cmd)
        /\ todo[1].result.ok => ExtractedUser(todo[1]) = Invoker(Cmd)

----------------------------------------------------------------------------
(* Properties of the task store *)

\* The calls that entered handle_task, and those between taking the map lock
\* for their list update and releasing it.
InHandleTask(t) ==
    calls[t].pc \in {"read", "get", "write", "entry", "lock", "push", "unlock",
                     "release"}
Updating(t) == calls[t].pc \in {"entry", "lock", "push", "unlock", "release"}
Returned(t) == calls[t].pc \in {"respond", "done", "failed"} /\ calls[t].idx > 0

HoldsMap(t) == t \in rw.readers \/ rw.writer = Some(t)
HoldsList(t) == \E u \in DOMAIN db : db[u].locked = Some(t)

\* Call b cannot take its next lock because call a holds it.
WaitsFor(b, a) ==
    \/ calls[b].pc = "read" /\ rw.writer = Some(a)
    \/ calls[b].pc = "write" /\ HoldsMap(a)
    \/ calls[b].pc = "lock" /\ db[TaskOf(b).user].locked = Some(a)

\* C12: in every interleaving of handle_task calls, a call for user B never
\* waits for a call for a different user A that is in the middle of its list
\* update, also when A's list is being created under the map's write lock.
C12_NoCrossUserWait ==
    \A a, b \in DOMAIN calls :
        (/\ InHandleTask(a) /\ InHandleTask(b)
         /\ TaskOf(a).user # TaskOf(b).user
         /\ Updating(a))
        => ~WaitsFor(b, a)

\* The responder ended in a panic or an error.
Dead(t) == calls[t].pc \in {"panicked", "failed"}

\* C13: each invocation is handled in its own spawned task: a responder that
\* panicked (handle_done) or returned an error holds neither the map lock nor a
\* list lock, the event loop can still take the next invocation, and every
\* call that is in handle_task beside such a responder returns.
C13_Isolation ==
    /\ [](\A t \in DOMAIN calls : Dead(t) => ~HoldsMap(t) /\ ~HoldsList(t))
    /\ []((Len(calls) < MaxCalls /\ \E t \in DOMAIN calls : Dead(t))
            => ENABLED Spawn)
    /\ \A t \in 1..MaxCalls :
          (/\ t \in DOMAIN calls
           /\ InHandleTask(t)
           /\ \E d \in DOMAIN calls : Dead(d))
          ~> (t \in DOMAIN calls /\ Returned(t))

\* The first responder panicked in handle_done, the second failed to parse,
\* and the third, spawned after them, added its task and sent its response.
C13_Witness ==
    /\ Len(calls) = 3
    /\ calls[1].pc = "panicked"
    /\ calls[2].pc = "failed" /\ ~calls[2].todo[1].ok
    /\ calls[3].pc = "done" /\ calls[3].idx = 1

\* The calls that have pushed their task to the list of user u.
PushedFor(u) == {t \in DOMAIN calls : calls[t].idx > 0 /\ TaskOf(t).user = u}
ListOf(u) == IF u \in DOMAIN db THEN db[u].tasks ELSE <<>>

\* C15: no update is lost in any interleaving: each user's list holds exactly
\* the tasks of the calls that pushed to it, each at the index reported to its
\* caller, and the indices reported are 1..N without duplicates (so a list once
\* created is never replaced by an empty one).
C15_NoLostUpdate ==
    \A u \in DOMAIN db \cup {TaskOf(t).user : t \in {c \in DOMAIN calls : InHandleTask(c)}} :
        /\ Len(ListOf(u)) = Cardinality(PushedFor(u))
        /\ {calls[t].idx : t \in PushedFor(u)} = 1..Len(ListOf(u))
        /\ \A t \in PushedFor(u) : ListOf(u)[calls[t].idx] = TaskOf(t).task

\* Three calls for one user; the last to push had found the user absent and
\* went on to the write lock, where or_default found the list already created.
C15_Witness ==
    /\ Len(calls) = 3
    /\ \A t \in DOMAIN calls : calls[t].idx > 0 /\ TaskOf(t).user = 1
    /\ Len(ListOf(1)) = 3
    /\ \E t \in DOMAIN calls : calls[t].guard = "write" /\ calls[t].idx = 3

\* C16: handle_task is deadlock-free: a list lock is only held while the map
\* lock is held (taken after it, released before it), and under fair scheduling
\* every call that starts handle_task has eventually pushed its task and
\* released all its locks.
C16_DeadlockFree ==
    /\ [](\A t \in DOMAIN calls : HoldsList(t) => HoldsMap(t))
    /\ \A t \in 1..MaxCalls :
          (t \in DOMAIN calls /\ calls[t].pc = "read")
          ~> (/\ t \in DOMAIN calls
              /\ Returned(t)
              /\ ~HoldsMap(t) /\ ~HoldsList(t)
              /\ ListOf(TaskOf(t).user)[calls[t].idx] = TaskOf(t).task)

\* Three calls, for a new user, for the same user now existing, and for
\* another new user, have all returned and no lock is held.
C16_Witness ==
    /\ Len(calls) = 3
    /\ \A t \in DOMAIN calls : Returned(t)
    /\ DOMAIN db = {1, 2}
    /\ Len(ListOf(1)) = 2 /\ Len(ListOf(2)) = 1
    /\ rw = [readers |-> {}, writer |-> None]
    /\ \A u \in DOMAIN db : db[u].locked = None

----------------------------------------------------------------------------
(* Properties of the option descriptors *)

\* The OptionMeta the generated command() passes for an explicit field.
MetaOf(f) ==
    OptionMeta(f.name, f.option.description, f.option.autocomplete, TRUE,
               number_to_command_option_value(f.option.min),
               number_to_command_option_value(f.option.max))

\* C14: in the descriptor an explicit field is required unless its declared
\* type is Option<T>; the fragment of an Option<T> field is the fragment T's
\* option() gives for the same metadata (same kind, name, description,
\* autocomplete, min and max), with only the required flag changed to false.
C14_Required ==
    registered[1] # None =>
        LET at == ExplicitPositions(BuiltFields)
        IN \A k \in DOMAIN at :
              LET f == BuiltFields[at[k]]
                  o == registered[1][1].options[k]
                  wrapped == ParseOption_option(Tail(f.ty), MetaOf(f))
              IN /\ o.data.required = ~IsOptional(f)
                 /\ IsOptional(f) =>
                       /\ o.kind = wrapped.kind
                       /\ o.data = [wrapped.data EXCEPT !.required = FALSE]

\* The descriptor of an Option<u8> field with autocomplete and bounds.
C14_Witness ==
    /\ registered[1] # None
    /\ BuiltFields[1].ty = <<"Option", "u8">>
    /\ registered[1][1].options[1].kind = "Integer"
    /\ registered[1][1].options[1].data.required = FALSE
    /\ registered[1][1].options[1].data.autocomplete = TRUE
    /\ registered[1][1].options[1].data.min_value = Some(Wire("Integer", 0))
    /\ registered[1][1].options[1].data.max_value = Some(Wire("Integer", 9))

----------------------------------------------------------------------------
(* Properties of the integer conversion *)

\* The 16-bit limbs, least significant first, of 0 <= x < 2^31 over n limbs.
LimbsOfNat(x, n) ==
    [k \in 1..n |-> IF k = 1 THEN x % 65536 ELSE IF k = 2 THEN x \div 65536 ELSE 0]

\* got is v reduced modulo 2^w in the signedness of the integer type t.
\* A narrow type: the one value of its range congruent to v.  A wide unsigned
\* type, as limbs: v itself when v >= 0, and 2^w - |v|, the complement of
\* |v| - 1, when v < 0.
IsWrapped(t, v, got) ==
    CASE t = "u8" -> got \in 0..255 /\ (got - v) % 256 = 0
      [] t = "i8" -> got \in (0 - 128)..127 /\ (got - v) % 256 = 0
      [] t = "u16" -> got \in 0..65535 /\ (got - v) % 65536 = 0
      [] t = "i16" -> got \in (0 - 32768)..32767 /\ (got - v) % 65536 = 0
      [] t = "i32" -> got = v
      [] t \in {"u32", "u64", "usize"} ->
           LET n == IF t = "u32" THEN 2 ELSE 4
           IN IF v >= 0 THEN got = LimbsOfNat(v, n)
              ELSE got = [k \in 1..n |-> 65535 - LimbsOfNat((0 - v) - 1, n)[k]]

\* C17: parsing an Integer wire value v into an integer field narrower than 64
\* bits or unsigned never fails: the field holds v reduced modulo 2^w in the
\* target's signedness, so out-of-range and negative values are wrapped.
C17_Wraps ==
    (/\ parsed # None
     /\ Fields[1].ty[1] \in IntegerTypes \ {"i64", "isize"}
     /\ Cmd.data.options[1].value.kind = "Integer")
    => /\ Outcome.ok
       /\ IsWrapped(Fields[1].ty[1], Cmd.data.options[1].value.value,
                    Outcome.val.values[1])

\* Integer(-1) parsed into a usize: 2^64 - 1.
C17_Witness ==
    /\ parsed # None
    /\ Fields[1].ty = <<"usize">>
    /\ Cmd.data.options[1].value = Wire("Integer", 0 - 1)
    /\ Outcome.ok
    /\ Outcome.val.values[1] = <<65535, 65535, 65535, 65535>>

====
